---- MODULE Spec2Model ----
(***************************************************************************)
(* Model of the three Arduino sketches of the repository:                  *)
(*   - the door status classifier  (XIAO_Image_Classifier_Door.ino),       *)
(*   - the person classifier       (XIAO_Image_Classifier.ino),            *)
(*   - the dataset capture sketch  (XIAO_Image_Capture_JPEG.ino).          *)
(* The Arduino core calls setup() once and then loop() forever.            *)
(*                                                                         *)
(* Numbers.  Output scores are floats in the code.  The model keeps a      *)
(* score as the integer numerator of a fraction over ScaleDen = 2^11 and   *)
(* draws the scale from dyadic values k/2^11 with small k: for those the   *)
(* float product (float)(raw - zero_point) * scale is exact (at most 9+6   *)
(* significant bits), so the numerator is the float's value, not an        *)
(* approximation of it.  Thresholds are kept in hundredths.                *)
(***************************************************************************)
EXTENDS Integers, Sequences, FiniteSets, TLC

\* ---------------------------------------------------------------- bounds
\* The camera is configured for 96x96 frames and the model input is
\* 96x96x3; the model scales the geometry down, keeping frame and tensor
\* geometry equal as the configuration does.
FrameW == 2
FrameH == 1

\* ------------------------------------------------------ program constants
IMAGE_COUNT == 10
CLOSED_DOOR_THRESHOLD == 55
DETECTION_THRESHOLD == 70
DOOR_OPEN_INDEX == 1
DOOR_CLOSED_INDEX == 0
kTensorArenaSize == 384 * 1024

ScaleDen == 2 ^ 11
Int8 == -128 .. 127
Byte == 0 .. 255

\* values of the model's sample inputs
PixelSamples == { <<52, 18>>, <<255, 255>> }
RawClosedSamples == { -128, 12, 13, 127 }
RawOpenSamples == { -128, 127 }
ZeroPointSamples == { -128, 0 }
\* scales 1/256 and 1/128
ScaleSamples == { 8, 16 }

\* markers outside the signed 8-bit range for memory that holds no value
\* written by the sketch
Uninit == 256 + 1
Clobbered == 256 + 2
\* a null camera_fb_t*
NoFrame == [ width |-> 0, height |-> 0, buf |-> [ k \in {} |-> 0 ] ]
NoThreshold == 0 - 1
NoDecision == [ state |-> "none", closed |-> 0, open |-> 0, threshold |-> NoThreshold ]
NoReport == 0 - 1

\* ------------------------------------------------------ integer narrowing
ToUint8(x) == x % 256
ToUint16(x) == x % 65536
ToInt8(x) == ((x + 128) % 256) - 128

\* uint16_t pixel = buf[i*2] | (buf[i*2+1] << 8): the two bytes occupy
\* disjoint bits, so the bitwise or is their sum
PackPixel_HighByteFirst(b0, b1) == ToUint16(b0 * 256 + b1)
PackPixel(b0, b1) == ToUint16(b0 + b1 * 256)

ExpandR(pixel) == ToUint8(((pixel \div 2048) % 32) * 8)
ExpandG_ShiftThree(pixel) == ToUint8(((pixel \div 32) % 64) * 8)
ExpandG(pixel) == ToUint8(((pixel \div 32) % 64) * 4)
ExpandB(pixel) == ToUint8((pixel % 32) * 8)

QuantizeDoor_NoWrap(c) == ToInt8(c) - 128

\* door sketch: (int8_t)c - 128 stored into an int8_t element
QuantizeDoor(c) == ToInt8(ToInt8(c) - 128)
\* classifier sketch and README snippet: (int8_t)(c - 128)
QuantizeClassifier(c) == ToInt8(c - 128)

Quantize(sk, c) == IF sk = "door" THEN QuantizeDoor(c) ELSE QuantizeClassifier(c)

PixelRGB(sk, b0, b1) ==
    LET pixel == PackPixel(b0, b1)
    IN  << Quantize(sk, ExpandR(pixel)),
           Quantize(sk, ExpandG(pixel)),
           Quantize(sk, ExpandB(pixel)) >>

\* ------------------------------------------------------------- frames
NumPixels == FrameW * FrameH
InputLen == NumPixels * 3

FrameOf(px) ==
    [ width  |-> FrameW,
      height |-> FrameH,
      buf    |-> [ k \in 0 .. (2 * NumPixels - 1) |-> px[k \div 2][(k % 2) + 1] ] ]

\* frames of the configured geometry: one pixel of one sample value, the
\* others of another or the same
RGBFrames ==
    { FrameOf([ k \in 0 .. (NumPixels - 1) |-> IF k = j THEN p ELSE q ]) :
        j \in 0 .. (NumPixels - 1), p \in PixelSamples, q \in PixelSamples }

JpegFrame == [ width |-> 320, height |-> 240, buf |-> [ k \in 0 .. 1 |-> 255 - 39 * k ] ]

\* dest_buf[k] = v: a store at an index of the tensor changes that
\* element; a store past the end of the tensor changes none of its elements
Store(buf, k, v) == IF k \in DOMAIN buf THEN [ buf EXCEPT ![k] = v ] ELSE buf

\* one more store counted at index k
Logged(log, k) == IF k \in DOMAIN log THEN [ log EXCEPT ![k] = @ + 1 ] ELSE log

RECURSIVE ConvertLoop_PlanarStore(_, _, _, _)
ConvertLoop_PlanarStore(sk, frame, i, st) ==
    IF i < frame.width * frame.height
    THEN LET rgb == PixelRGB(sk, frame.buf[i * 2], frame.buf[i * 2 + 1])
             n   == frame.width * frame.height
             d   == [ st.dest EXCEPT ![i] = rgb[1], ![n + i] = rgb[2], ![2 * n + i] = rgb[3] ]
             w   == [ st.writes EXCEPT ![i] = @ + 1, ![n + i] = @ + 1, ![2 * n + i] = @ + 1 ]
         IN  ConvertLoop_PlanarStore(sk, frame, i + 1,
                 [ dest |-> d, writes |-> w, dest_index |-> st.dest_index + 3 ])
    ELSE st

\* the body of the for loop for pixel i, applied to the value of the loop
\* state st0: dest_buf, dest_index and the number of stores made to each
\* element
ConvertPixel(sk, frame, i, st0) ==
    LET Body(st) ==
          LET rgb == PixelRGB(sk, frame.buf[i * 2], frame.buf[i * 2 + 1])
              k   == st.dest_index
              d   == Store(Store(Store(st.dest, k, rgb[1]), k + 1, rgb[2]), k + 2, rgb[3])
              w   == Logged(Logged(Logged(st.writes, k), k + 1), k + 2)
          IN  [ dest |-> d, writes |-> w, dest_index |-> k + 3 ]
    IN  CHOOSE after \in { Body(st) : st \in { st0 } } : TRUE

\* the for loop of GetInputData, from pixel i on
RECURSIVE ConvertLoop(_, _, _, _)
ConvertLoop(sk, frame, i, st) ==
    IF i < frame.width * frame.height
    THEN ConvertLoop(sk, frame, i + 1, ConvertPixel(sk, frame, i, st))
    ELSE st

\* ------------------------------------------------------------- scores
Dequantize_NarrowDifference(q, zp, sc) == ToInt8(q - zp) * sc

\* (float)(q - zero_point) * scale, as a numerator over ScaleDen; q is
\* promoted to int before the subtraction
Dequantize(q, zp, sc) == (q - zp) * sc

\* score < t and score >= t for a threshold t given in hundredths
ScoreBelow(score, t) == score * 100 < t * ScaleDen

DoorState(closed_score) ==
    IF ScoreBelow(closed_score, CLOSED_DOOR_THRESHOLD) THEN "DOOR_OPEN" ELSE "DOOR_CLOSED"

PersonState(person_score) ==
    IF ~ScoreBelow(person_score, DETECTION_THRESHOLD) THEN "DETECTION" ELSE "NO_DETECTION"

\* ------------------------------------------------------------- state
VARIABLES
    sketch,          \* which sketch is flashed: "door", "classifier", "capture"
    pc,              \* position of the single thread of control
    cameraOk,        \* the camera driver is initialised
    initFailed,      \* init_camera printed the camera failure diagnostic
    exposureFixed,   \* init_camera applied the manual gain/exposure settings
    tensor_arena,    \* "null" or "alloc"
    arenaSize,       \* bytes of the region tensor_arena points to, 0 if null
    mallocCalls,     \* heap_caps_malloc calls made so far
    interpreter,     \* "null" or "bound"
    input,           \* "null" or "bound"
    output,          \* "null" or "bound"
    setupResult,     \* "running", "ok" or "fatal"
    fatalDiags,      \* number of fatal setup diagnostics printed
    fb,              \* the local camera_fb_t* of the running operation
    outstanding,     \* frames obtained from the driver and not yet returned
    returns,         \* esp_camera_fb_return calls of the running operation
    useAfterReturn,  \* a frame buffer was read while no frame was held
    dest,            \* input->data.int8, the InputTensor
    writes,          \* stores made to each element by the last conversion
    destAtEntry,     \* the InputTensor when the current cycle began, kept
                     \* until the cycle's own conversion replaces the content
    outq,            \* output->data.int8
    zero_point,      \* output->params.zero_point
    scale,           \* output->params.scale, numerator over ScaleDen
    decision,        \* the result reported in the current cycle
    steps,           \* steps taken in the current cycle, in order
    twin,            \* a second run of the same sketch on the same inputs,
                     \* whose InputTensor content at cycle entry is different;
                     \* that content is chosen where it is first used, by
                     \* the conversion
    i,               \* capture sketch: loop index of the batch
    saved,           \* capture sketch: files written in the current batch
    pauses,          \* capture sketch: pauses made in the current batch
    reported,        \* capture sketch: count printed by "Batch Complete"
    sdOk,            \* capture sketch: SD.begin succeeded
    label,           \* capture sketch: the label read by the last loop() run
    attempts,        \* capture sketch: captureAndSave calls of the batch
    failed           \* capture sketch: a captureAndSave call of the batch
                     \* returned false

vars == << sketch, pc, cameraOk, initFailed, exposureFixed, tensor_arena,
           arenaSize, mallocCalls, interpreter, input, output,
           setupResult, fatalDiags, fb, outstanding, returns, useAfterReturn,
           dest, writes, destAtEntry, outq, zero_point, scale, decision, steps,
           twin,
           i, saved, pauses, reported, sdOk, label, attempts, failed >>

cameraVars == << cameraOk, initFailed, exposureFixed >>
handles == << tensor_arena, arenaSize, mallocCalls, interpreter, input, output >>
frameVars == << fb, outstanding, returns, useAfterReturn >>
tensorVars == << dest, writes, destAtEntry >>
modelVars == << zero_point, scale >>
batchVars == << i, saved, pauses, reported, sdOk, label, attempts, failed >>

Classifiers == { "door", "classifier" }

BlankTensor == [ k \in 0 .. (InputLen - 1) |-> Uninit ]
\* the store log also covers GuardLen elements past the end of the tensor
GuardLen == 3
NoWrites == [ k \in 0 .. (InputLen + GuardLen - 1) |-> 0 ]
BlankOutput == [ k \in 0 .. 1 |-> Uninit ]

\* frames whose reported size is not the tensor's: one pixel fewer, or as
\* many pixels more as the store log has room for
FrameOfPixels(n, p) ==
    [ width  |-> n,
      height |-> 1,
      buf    |-> [ k \in 0 .. (2 * n - 1) |-> p[(k % 2) + 1] ] ]

MismatchedFrames ==
    { FrameOfPixels(n, p) :
        n \in { NumPixels - 1, NumPixels + (GuardLen \div 3) }, p \in PixelSamples }
ClobberedTensor == [ k \in 0 .. (InputLen - 1) |-> Clobbered ]

\* the second run before its first cycle
NoTwin == [ dest |-> BlankTensor, outq |-> BlankOutput, decision |-> NoDecision,
            differed |-> FALSE ]
\* contents the InputTensor of the second run may hold at cycle entry
\* where the first run holds d
OtherContents(d) ==
    { BlankTensor, ClobberedTensor, [ d EXCEPT ![InputLen - 1] = Clobbered ] } \ { d }

\* state after reset, before setup() runs
Init ==
    /\ sketch \in { "door", "classifier", "capture" }
    /\ pc = "boot"
    /\ cameraOk = FALSE
    /\ initFailed = FALSE
    /\ exposureFixed = FALSE
    /\ tensor_arena = "null"
    /\ arenaSize = 0
    /\ mallocCalls = 0
    /\ interpreter = "null"
    /\ input = "null"
    /\ output = "null"
    /\ setupResult = "running"
    /\ fatalDiags = 0
    /\ fb = NoFrame
    /\ outstanding = 0
    /\ returns = 0
    /\ useAfterReturn = FALSE
    /\ dest = BlankTensor
    /\ writes = NoWrites
    /\ destAtEntry = BlankTensor
    /\ outq = BlankOutput
    /\ zero_point \in (IF sketch = "capture" THEN { 0 } ELSE ZeroPointSamples)
    /\ scale \in (IF sketch = "capture" THEN { 1 } ELSE ScaleSamples)
    /\ decision = NoDecision
    /\ steps = << >>
    /\ twin = NoTwin
    /\ i = 0
    /\ saved = 0
    /\ pauses = 0
    /\ reported = NoReport
    /\ sdOk = FALSE
    /\ label = << >>
    /\ attempts = 0
    /\ failed = FALSE

\* ------------------------------------------ classifier sketches: setup()
init_camera_AlwaysHalts ==
    /\ sketch \in Classifiers
    /\ pc = "boot"
    /\ \E ok \in BOOLEAN, again \in BOOLEAN :
          /\ initFailed' = ~ok
          /\ cameraOk' = (ok \/ again)
          /\ exposureFixed' = ok
          /\ pc' = IF ok THEN "setup_model" ELSE "halt"
    /\ UNCHANGED << sketch, twin, handles, setupResult, fatalDiags, frameVars,
                    tensorVars, outq, modelVars, decision, steps, batchVars >>

\* init_camera(): when esp_camera_init fails it is called a second time for
\* the error code to print, whatever that second call returns; then the
\* door sketch returns and the classifier sketch spins in while(1). On
\* success the sensor settings are applied (esp_camera_sensor_get returns
\* the sensor of an initialised driver).
init_camera ==
    /\ sketch \in Classifiers
    /\ pc = "boot"
    /\ \E ok \in BOOLEAN, again \in BOOLEAN :
          /\ initFailed' = ~ok
          /\ cameraOk' = (ok \/ again)
          /\ exposureFixed' = ok
          /\ pc' = IF ok \/ sketch = "door" THEN "setup_model" ELSE "halt"
    /\ UNCHANGED << sketch, twin, handles, setupResult, fatalDiags, frameVars,
                    tensorVars, outq, modelVars, decision, steps, batchVars >>

\* setup() returns after printing the diagnostic; the core then calls loop()
Fatal ==
    /\ fatalDiags' = fatalDiags + 1
    /\ setupResult' = "fatal"
    /\ pc' = "loop"

setup_CheckVersion ==
    /\ pc = "setup_model"
    /\ \E versionOk \in BOOLEAN :
          IF versionOk
          THEN pc' = "setup_arena" /\ UNCHANGED << setupResult, fatalDiags >>
          ELSE Fatal
    /\ UNCHANGED << sketch, twin, cameraVars, handles, frameVars, tensorVars, outq,
                    modelVars, decision, steps, batchVars >>

setup_AllocArena_RetriesOnce ==
    /\ pc = "setup_arena"
    /\ mallocCalls' = mallocCalls + 1
    /\ \E allocated \in BOOLEAN :
          IF allocated
          THEN /\ tensor_arena' = "alloc"
               /\ arenaSize' = kTensorArenaSize
               /\ interpreter' = "bound"
               /\ pc' = "setup_tensors"
               /\ UNCHANGED << setupResult, fatalDiags >>
          ELSE /\ IF mallocCalls = 0
                  THEN UNCHANGED << pc, setupResult, fatalDiags >>
                  ELSE Fatal
               /\ UNCHANGED << tensor_arena, arenaSize, interpreter >>
    /\ UNCHANGED << sketch, twin, cameraVars, input, output, frameVars, tensorVars,
                    outq, modelVars, decision, steps, batchVars >>

\* heap_caps_malloc(kTensorArenaSize, MALLOC_CAP_SPIRAM) and, when it
\* succeeded, the construction of the interpreter over the region
setup_AllocArena ==
    /\ pc = "setup_arena"
    /\ mallocCalls' = mallocCalls + 1
    /\ \E allocated \in BOOLEAN :
          IF allocated
          THEN /\ tensor_arena' = "alloc"
               /\ arenaSize' = kTensorArenaSize
               /\ interpreter' = "bound"
               /\ pc' = "setup_tensors"
               /\ UNCHANGED << setupResult, fatalDiags >>
          ELSE /\ Fatal
               /\ UNCHANGED << tensor_arena, arenaSize, interpreter >>
    /\ UNCHANGED << sketch, twin, cameraVars, input, output, frameVars, tensorVars,
                    outq, modelVars, decision, steps, batchVars >>

setup_AllocateTensors ==
    /\ pc = "setup_tensors"
    /\ \E ok \in BOOLEAN :
          IF ok
          THEN /\ input' = "bound"
               /\ output' = "bound"
               /\ setupResult' = "ok"
               /\ pc' = "loop"
               /\ UNCHANGED fatalDiags
          ELSE /\ Fatal
               /\ UNCHANGED << input, output >>
    /\ UNCHANGED << sketch, twin, cameraVars, tensor_arena, arenaSize, mallocCalls,
                    interpreter, frameVars, tensorVars, outq, modelVars, decision, steps, batchVars >>

\* ------------------------------------------- classifier sketches: loop()
\* loop() calls RunInferenceAndReport(), which calls GetInputData()
loop ==
    /\ sketch \in Classifiers
    /\ pc = "loop"
    /\ pc' = "gid_get"
    /\ steps' = << >>
    /\ decision' = NoDecision
    /\ destAtEntry' = dest
    /\ twin' = [ dest |-> dest, outq |-> outq, decision |-> NoDecision,
                 differed |-> FALSE ]
    /\ UNCHANGED << sketch, cameraVars, handles, setupResult, fatalDiags,
                    frameVars, dest, writes, outq, modelVars, batchVars >>

\* camera_fb_t *fb = esp_camera_fb_get(); if (!fb) { ...; return false; }
\* RunInferenceAndReport returns on false and loop() goes on to delay()
GetInputData_FbGetFrom(frames) ==
    /\ pc = "gid_get"
    /\ \/ /\ cameraOk
          /\ fb' \in frames
          /\ outstanding' = outstanding + 1
          /\ returns' = 0
          /\ steps' = Append(steps, "acquire")
          /\ pc' = "gid_convert"
       \/ /\ fb' = NoFrame
          /\ steps' = Append(steps, "acquire_fail")
          /\ pc' = "delay"
          /\ UNCHANGED << outstanding, returns >>
    /\ UNCHANGED << sketch, twin, cameraVars, handles, setupResult, fatalDiags,
                    useAfterReturn, tensorVars, outq, modelVars, decision,
                    batchVars >>

GetInputData_FbGet_FailureReturnsTrue ==
    /\ pc = "gid_get"
    /\ \/ /\ cameraOk
          /\ fb' \in RGBFrames
          /\ outstanding' = outstanding + 1
          /\ returns' = 0
          /\ steps' = Append(steps, "acquire")
          /\ pc' = "gid_convert"
       \/ /\ fb' = NoFrame
          /\ steps' = Append(steps, "acquire_fail")
          /\ pc' = "invoke"
          /\ UNCHANGED << outstanding, returns >>
    /\ UNCHANGED << sketch, twin, cameraVars, handles, setupResult, fatalDiags,
                    useAfterReturn, tensorVars, outq, modelVars, decision,
                    batchVars >>

\* the driver delivers frames of the configured geometry
GetInputData_FbGet == GetInputData_FbGetFrom(RGBFrames)

\* the frame's width and height are whatever the frame reports
GetInputData_FbGet_AnySize == GetInputData_FbGetFrom(RGBFrames \cup MismatchedFrames)

\* int8_t *dest_buf = (int8_t *)input->data.int8 with input == nullptr:
\* the load from address zero traps and the program stops in the panic
\* handler
GetInputData_NullInput ==
    /\ pc = "gid_convert"
    /\ input = "null"
    /\ pc' = "crashed"
    /\ UNCHANGED << sketch, twin, cameraVars, handles, setupResult, fatalDiags,
                    frameVars, tensorVars, outq, modelVars, decision, steps,
                    batchVars >>

GetInputData_Convert_SkipsLastStore ==
    /\ pc = "gid_convert"
    /\ input = "bound"
    /\ LET st == ConvertLoop(sketch, fb, 0,
                     [ dest |-> dest, writes |-> NoWrites, dest_index |-> 0 ])
       IN  /\ dest' = [ st.dest EXCEPT ![InputLen - 1] = dest[InputLen - 1] ]
           /\ writes' = st.writes
           /\ \E other \in OtherContents(dest) :
                 LET tw == ConvertLoop(sketch, fb, 0,
                               [ dest |-> other, writes |-> NoWrites, dest_index |-> 0 ])
                 IN  twin' = [ twin EXCEPT
                                 !.dest = [ tw.dest EXCEPT ![InputLen - 1] = other[InputLen - 1] ],
                                 !.differed = TRUE ]
    /\ destAtEntry' = BlankTensor
    /\ useAfterReturn' = (useAfterReturn \/ outstanding = 0)
    /\ steps' = Append(steps, "convert")
    /\ pc' = "gid_return"
    /\ UNCHANGED << sketch, cameraVars, handles, setupResult, fatalDiags, fb,
                    outstanding, returns, outq, modelVars, decision,
                    batchVars >>

\* the conversion loop; the snapshot of the tensor taken at cycle entry
\* is dropped once the tensor has been rewritten. Stores past the end of
\* the tensor are undefined behaviour: the sketch goes on, or it faults
\* at or after them.
GetInputData_Convert ==
    /\ pc = "gid_convert"
    /\ input = "bound"
    /\ LET st == ConvertLoop(sketch, fb, 0,
                     [ dest |-> dest, writes |-> NoWrites, dest_index |-> 0 ])
       IN  /\ dest' = st.dest
           /\ writes' = st.writes
           /\ \E other \in OtherContents(dest) :
                 LET tw == ConvertLoop(sketch, fb, 0,
                               [ dest |-> other, writes |-> NoWrites, dest_index |-> 0 ])
                 IN  twin' = [ twin EXCEPT !.dest = tw.dest, !.differed = TRUE ]
    /\ destAtEntry' = BlankTensor
    /\ useAfterReturn' = (useAfterReturn \/ outstanding = 0)
    /\ steps' = Append(steps, "convert")
    /\ pc' \in IF 3 * fb.width * fb.height > InputLen
              THEN { "gid_return", "crashed" }
              ELSE { "gid_return" }
    /\ UNCHANGED << sketch, cameraVars, handles, setupResult, fatalDiags, fb,
                    outstanding, returns, outq, modelVars, decision,
                    batchVars >>

\* esp_camera_fb_return(fb); return true;
GetInputData_Return ==
    /\ pc = "gid_return"
    /\ outstanding' = outstanding - 1
    /\ returns' = returns + 1
    /\ fb' = NoFrame
    /\ pc' = "invoke"
    /\ UNCHANGED << sketch, twin, cameraVars, handles, setupResult, fatalDiags,
                    useAfterReturn, tensorVars, outq, modelVars, decision,
                    steps, batchVars >>

Invoke_StatusIgnored ==
    /\ pc = "invoke"
    /\ \/ /\ \E c \in RawClosedSamples, o \in RawOpenSamples :
                outq' = [ k \in 0 .. 1 |-> IF k = DOOR_CLOSED_INDEX THEN c ELSE o ]
          /\ steps' = Append(steps, "invoke")
       \/ /\ steps' = Append(steps, "invoke_fail")
          /\ outq' = [ k \in 0 .. 1 |-> 0 ]
    /\ pc' = "decide"
    /\ UNCHANGED << sketch, twin, cameraVars, handles, setupResult, fatalDiags,
                    frameVars, tensorVars, modelVars, decision, batchVars >>

\* interpreter->Invoke(): the engine is external; on success it leaves two
\* signed 8-bit values in the output tensor, and it may use the input
\* tensor's arena memory as scratch space
Invoke ==
    /\ pc = "invoke"
    /\ \/ /\ \E c \in RawClosedSamples, o \in RawOpenSamples :
                outq' = [ k \in 0 .. 1 |-> IF k = DOOR_CLOSED_INDEX THEN c ELSE o ]
          /\ steps' = Append(steps, "invoke")
          /\ pc' = "decide"
       \/ /\ steps' = Append(steps, "invoke_fail")
          /\ pc' = "delay"
          /\ UNCHANGED outq
    /\ \/ UNCHANGED dest
       \/ dest' = ClobberedTensor
    /\ twin' \in
          IF twin.dest = dest
          THEN { [ twin EXCEPT !.outq = outq', !.dest = dest' ] }
          ELSE { [ twin EXCEPT
                     !.outq = IF pc' = "decide"
                              THEN [ k \in 0 .. 1 |-> IF k = DOOR_CLOSED_INDEX THEN c ELSE o ]
                              ELSE @,
                     !.dest = d ] :
                 c \in RawClosedSamples, o \in RawOpenSamples,
                 d \in { twin.dest, ClobberedTensor } }
    /\ UNCHANGED << sketch, cameraVars, handles, setupResult, fatalDiags,
                    frameVars, writes, destAtEntry, modelVars, decision,
                    batchVars >>

Classify_OpenScoreRule(sk, score0, score1) ==
    IF ~ScoreBelow(score1, CLOSED_DOOR_THRESHOLD) THEN "DOOR_OPEN" ELSE "DOOR_CLOSED"

ReportedThreshold_Detection(sk, state) ==
    IF state \in { "DOOR_OPEN", "DETECTION" } THEN DETECTION_THRESHOLD ELSE NoThreshold

\* the threshold printed with the report, in hundredths: only the open and
\* detection messages print one
ReportedThreshold(sk, state) ==
    IF state = "DOOR_OPEN" THEN CLOSED_DOOR_THRESHOLD
    ELSE IF state = "DETECTION" THEN DETECTION_THRESHOLD
    ELSE NoThreshold

\* the state reported for a pair of de-quantized scores: the door sketch
\* tests the closed score (index 0), the classifier sketch the person
\* score (index 1)
Classify(sk, score0, score1) ==
    IF sk = "door" THEN DoorState(score0) ELSE PersonState(score1)

\* both scores of an output tensor and the message printed for them
Report(sk, out, zp, sc) ==
    LET score1 == Dequantize(out[DOOR_OPEN_INDEX], zp, sc)
        score0 == Dequantize(out[DOOR_CLOSED_INDEX], zp, sc)
        state  == Classify(sk, score0, score1)
    IN  [ state     |-> state,
          closed    |-> score0,
          open      |-> score1,
          threshold |-> ReportedThreshold(sk, state) ]

RunInferenceAndReport_Report_StartsNextFrame ==
    /\ pc = "decide"
    /\ decision' = Report(sketch, outq, zero_point, scale)
    /\ twin' = [ twin EXCEPT !.decision = Report(sketch, twin.outq, zero_point, scale) ]
    /\ steps' = Append(steps, "decide")
    /\ pc' = "gid_get"
    /\ UNCHANGED << sketch, cameraVars, handles, setupResult, fatalDiags,
                    frameVars, tensorVars, outq, modelVars, batchVars >>

RunInferenceAndReport_Report_ConsumesOutput ==
    /\ pc = "decide"
    /\ decision' = Report(sketch, outq, zero_point, scale)
    /\ twin' = [ twin EXCEPT !.decision = Report(sketch, twin.outq, zero_point, scale) ]
    /\ outq' = BlankOutput
    /\ steps' = Append(steps, "decide")
    /\ pc' = "delay"
    /\ UNCHANGED << sketch, cameraVars, handles, setupResult, fatalDiags,
                    frameVars, tensorVars, modelVars, batchVars >>

\* de-quantization of both scores and the report
RunInferenceAndReport_Report ==
    /\ pc = "decide"
    /\ decision' = Report(sketch, outq, zero_point, scale)
    /\ twin' = [ twin EXCEPT !.decision = Report(sketch, twin.outq, zero_point, scale) ]
    /\ steps' = Append(steps, "decide")
    /\ pc' = "delay"
    /\ UNCHANGED << sketch, cameraVars, handles, setupResult, fatalDiags,
                    frameVars, tensorVars, outq, modelVars, batchVars >>

loop_delay_StopsAfterFailure ==
    /\ pc = "delay"
    /\ decision # NoDecision
    /\ pc' = "loop"
    /\ UNCHANGED << sketch, twin, cameraVars, handles, setupResult, fatalDiags,
                    frameVars, tensorVars, outq, modelVars, decision, steps,
                    batchVars >>

\* delay(1000); loop() returns and is called again
loop_delay ==
    /\ pc = "delay"
    /\ pc' = "loop"
    /\ UNCHANGED << sketch, twin, cameraVars, handles, setupResult, fatalDiags,
                    frameVars, tensorVars, outq, modelVars, decision, steps,
                    batchVars >>

\* ------------------------------------------------------ capture sketch
pipelineVars == << handles, setupResult, fatalDiags, tensorVars, outq,
                   modelVars, decision, steps, twin >>

\* setup(): SD.begin, initCamera, setInitialTime; both failures spin in
\* while(true)
capture_setup_SD ==
    /\ sketch = "capture"
    /\ pc = "boot"
    /\ \E ok \in BOOLEAN :
          /\ sdOk' = ok
          /\ pc' = IF ok THEN "cap_cam" ELSE "halt"
    /\ UNCHANGED << sketch, cameraVars, pipelineVars, frameVars, i, saved,
                    pauses, reported, label, attempts, failed >>

capture_setup_Camera ==
    /\ pc = "cap_cam"
    /\ \E ok \in BOOLEAN :
          /\ cameraOk' = ok
          /\ pc' = IF ok THEN "cap_time" ELSE "halt"
    /\ UNCHANGED << sketch, initFailed, exposureFixed, pipelineVars, frameVars, batchVars >>

setInitialTime ==
    /\ pc = "cap_time"
    /\ pc' = "cap_loop"
    /\ UNCHANGED << sketch, cameraVars, pipelineVars, frameVars, batchVars >>

\* the lines a user can type, as sequences of characters
LabelLines == { << >>, << " " >>, << "a" >>, << " ", "a", " ", "b", " " >> }

IsSpace(c) == c = " "

\* String::trim(): leading and trailing whitespace removed
RECURSIVE TrimLeft(_)
TrimLeft(str) ==
    IF str # << >> /\ IsSpace(Head(str)) THEN TrimLeft(Tail(str)) ELSE str

RECURSIVE TrimRight(_)
TrimRight(str) ==
    IF str # << >> /\ IsSpace(str[Len(str)])
    THEN TrimRight(SubSeq(str, 1, Len(str) - 1))
    ELSE str

\* getUserInput(): input = Serial.readStringUntil('\n'); input.trim()
getUserInput(line) == TrimRight(TrimLeft(line))

\* label.replace(" ", "_")
ReplaceSpaces(str) == [ k \in 1 .. Len(str) |-> IF str[k] = " " THEN "_" ELSE str[k] ]

\* loop() with serial input available: an empty label is rejected, any
\* other label starts a batch at i = 1
capture_loop_Label ==
    /\ pc = "cap_loop"
    /\ \E line \in LabelLines :
          IF Len(getUserInput(line)) = 0
          THEN /\ label' = << >>
               /\ UNCHANGED << pc, i, saved, pauses, reported, attempts, failed >>
          ELSE /\ label' = ReplaceSpaces(getUserInput(line))
               /\ i' = 1
               /\ saved' = 0
               /\ pauses' = 0
               /\ reported' = NoReport
               /\ attempts' = 0
               /\ failed' = FALSE
               /\ pc' = "cap_get"
    /\ UNCHANGED << sketch, cameraVars, pipelineVars, frameVars, sdOk >>

\* captureAndSave: fb = esp_camera_fb_get(); if (!fb) return false;
\* a false result breaks out of the batch loop
captureAndSave_FbGet ==
    /\ pc = "cap_get"
    /\ attempts' = attempts + 1
    /\ \/ /\ fb' = JpegFrame
          /\ outstanding' = outstanding + 1
          /\ returns' = 0
          /\ pc' = "cap_open"
          /\ UNCHANGED failed
       \/ /\ fb' = NoFrame
          /\ failed' = TRUE
          /\ pc' = "cap_done"
          /\ UNCHANGED << outstanding, returns >>
    /\ UNCHANGED << sketch, cameraVars, pipelineVars, useAfterReturn, i, saved,
                    pauses, reported, sdOk, label >>

\* File file = SD.open(...); if (!file) { esp_camera_fb_return(fb); return false; }
captureAndSave_Open ==
    /\ pc = "cap_open"
    /\ \E opened \in BOOLEAN :
          IF opened
          THEN pc' = "cap_write" /\ UNCHANGED << fb, outstanding, returns, failed >>
          ELSE /\ outstanding' = outstanding - 1
               /\ returns' = returns + 1
               /\ fb' = NoFrame
               /\ failed' = TRUE
               /\ pc' = "cap_done"
    /\ UNCHANGED << sketch, cameraVars, pipelineVars, useAfterReturn, i, saved,
                    pauses, reported, sdOk, label, attempts >>

\* file.write(fb->buf, fb->len); file.close();
captureAndSave_Write ==
    /\ pc = "cap_write"
    /\ useAfterReturn' = (useAfterReturn \/ outstanding = 0)
    /\ pc' = "cap_return"
    /\ UNCHANGED << sketch, cameraVars, pipelineVars, fb, outstanding, returns,
                    batchVars >>

\* the step after a successful captureAndSave: "Saved.", then the pause
\* when i < IMAGE_COUNT, otherwise i++ and the end of the for loop
AfterSaved_AlwaysPauses(n) == "cap_pause"
AfterSaved(n) == IF n < IMAGE_COUNT THEN "cap_pause" ELSE "cap_done"

\* esp_camera_fb_return(fb); return true; then "Saved." and either the
\* pause (i < IMAGE_COUNT) or the end of the for loop
captureAndSave_Return ==
    /\ pc = "cap_return"
    /\ outstanding' = outstanding - 1
    /\ returns' = returns + 1
    /\ fb' = NoFrame
    /\ saved' = saved + 1
    /\ pc' = AfterSaved(i)
    /\ i' = IF AfterSaved(i) = "cap_pause" THEN i ELSE i + 1
    /\ UNCHANGED << sketch, cameraVars, pipelineVars, useAfterReturn, pauses,
                    reported, sdOk, label, attempts, failed >>

\* delay(CAPTURE_DELAY_MS); i++; the for condition i <= IMAGE_COUNT
capture_loop_Pause ==
    /\ pc = "cap_pause"
    /\ pauses' = pauses + 1
    /\ i' = i + 1
    /\ pc' = IF i + 1 <= IMAGE_COUNT THEN "cap_get" ELSE "cap_done"
    /\ UNCHANGED << sketch, cameraVars, pipelineVars, frameVars, saved, reported,
                    sdOk, label, attempts, failed >>

\* the "Batch Complete: %d images saved" line prints IMAGE_COUNT
capture_loop_BatchComplete ==
    /\ pc = "cap_done"
    /\ reported' = IMAGE_COUNT
    /\ pc' = "cap_loop"
    /\ UNCHANGED << sketch, cameraVars, pipelineVars, frameVars, i, saved, pauses,
                    sdOk, label, attempts, failed >>

\* ------------------------------------------------------- specifications
Next ==
    \/ init_camera
    \/ setup_CheckVersion
    \/ setup_AllocArena
    \/ setup_AllocateTensors
    \/ loop
    \/ GetInputData_FbGet
    \/ GetInputData_NullInput
    \/ GetInputData_Convert
    \/ GetInputData_Return
    \/ Invoke
    \/ RunInferenceAndReport_Report
    \/ loop_delay
    \/ capture_setup_SD
    \/ capture_setup_Camera
    \/ setInitialTime
    \/ capture_loop_Label
    \/ captureAndSave_FbGet
    \/ captureAndSave_Open
    \/ captureAndSave_Write
    \/ captureAndSave_Return
    \/ capture_loop_Pause
    \/ capture_loop_BatchComplete

Spec == Init /\ [][Next]_vars

\* The classifier sketches with a camera that delivers one and the same
\* frame whenever it delivers one.
WhiteFrame == FrameOf([ k \in 0 .. (NumPixels - 1) |-> << 255, 255 >> ])

GetInputData_FbGet_White == GetInputData_FbGetFrom({ WhiteFrame })

InitLive == Init /\ sketch \in Classifiers

\* the statements of loop(); the single thread executes the next one
\* whenever there is one, the calls into the camera driver and the
\* interpreter included when these return
CycleStep ==
    \/ loop
    \/ GetInputData_FbGet_White
    \/ GetInputData_NullInput
    \/ GetInputData_Convert
    \/ GetInputData_Return
    \/ Invoke
    \/ RunInferenceAndReport_Report
    \/ loop_delay

NextLive ==
    \/ init_camera
    \/ setup_CheckVersion
    \/ setup_AllocArena
    \/ setup_AllocateTensors
    \/ CycleStep

SpecLive == InitLive /\ [][NextLive]_vars /\ WF_vars(CycleStep)

\* The Pixel Converter on every 16-bit pixel: the state in which
\* GetInputData of either classifier sketch holds a frame whose first
\* pixel is any byte pair, followed by the conversion itself.
FrameWithFirstPixel(b0, b1) ==
    FrameOf([ k \in 0 .. (NumPixels - 1) |-> IF k = 0 THEN << b0, b1 >> ELSE << 255, 255 >> ])

InitPixel ==
    /\ sketch \in Classifiers
    /\ pc = "gid_convert"
    /\ cameraOk = TRUE
    /\ initFailed = FALSE
    /\ exposureFixed = TRUE
    /\ tensor_arena = "alloc"
    /\ arenaSize = kTensorArenaSize
    /\ mallocCalls = 1
    /\ interpreter = "bound"
    /\ input = "bound"
    /\ output = "bound"
    /\ setupResult = "ok"
    /\ fatalDiags = 0
    /\ \E b0 \in Byte, b1 \in Byte : fb = FrameWithFirstPixel(b0, b1)
    /\ outstanding = 1
    /\ returns = 0
    /\ useAfterReturn = FALSE
    /\ dest = BlankTensor
    /\ writes = NoWrites
    /\ destAtEntry = BlankTensor
    /\ outq = BlankOutput
    /\ zero_point = -128
    /\ scale = 8
    /\ decision = NoDecision
    /\ steps = << "acquire" >>
    /\ twin = NoTwin
    /\ i = 0
    /\ saved = 0
    /\ pauses = 0
    /\ reported = NoReport
    /\ sdOk = FALSE
    /\ label = << >>
    /\ attempts = 0
    /\ failed = FALSE

NextPixel == GetInputData_Convert

SpecPixel == InitPixel /\ [][NextPixel]_vars

\* Cycles after a successful setup in which the frame may report a size
\* other than the tensor's.
InitShape ==
    /\ sketch \in Classifiers
    /\ pc = "loop"
    /\ cameraOk = TRUE
    /\ initFailed = FALSE
    /\ exposureFixed = TRUE
    /\ tensor_arena = "alloc"
    /\ arenaSize = kTensorArenaSize
    /\ mallocCalls = 1
    /\ interpreter = "bound"
    /\ input = "bound"
    /\ output = "bound"
    /\ setupResult = "ok"
    /\ fatalDiags = 0
    /\ fb = NoFrame
    /\ outstanding = 0
    /\ returns = 0
    /\ useAfterReturn = FALSE
    /\ dest = BlankTensor
    /\ writes = NoWrites
    /\ destAtEntry = BlankTensor
    /\ outq = BlankOutput
    /\ zero_point \in ZeroPointSamples
    /\ scale \in ScaleSamples
    /\ decision = NoDecision
    /\ steps = << >>
    /\ twin = NoTwin
    /\ i = 0
    /\ saved = 0
    /\ pauses = 0
    /\ reported = NoReport
    /\ sdOk = FALSE
    /\ label = << >>
    /\ attempts = 0
    /\ failed = FALSE

NextShape ==
    \/ loop
    \/ GetInputData_FbGet_AnySize
    \/ GetInputData_Convert
    \/ GetInputData_Return
    \/ Invoke
    \/ RunInferenceAndReport_Report
    \/ loop_delay

SpecShape == InitShape /\ [][NextShape]_vars

\* The Score Interpreter on every raw value and every zero point: the
\* state of the door sketch after a successful Invoke, followed by the
\* de-quantization and report.
ScoreInputs ==
    { << c, o >> : c \in Int8, o \in RawOpenSamples } \cup
    { << c, o >> : c \in { 13 }, o \in Int8 } \cup
    { << 120, 115 >> }

\* the sample scales and 33/2048 = 0.0161..., the scale under which, with
\* zero point 61, raw 120 is the score 0.95 and raw 80 the score 0.31
ScoreScales == ScaleSamples \cup { 33 }

SampleTensor ==
    ConvertLoop("door", FrameWithFirstPixel(52, 18), 0,
                [ dest |-> BlankTensor, writes |-> NoWrites, dest_index |-> 0 ])

InitScore ==
    /\ sketch = "door"
    /\ pc = "decide"
    /\ cameraOk = TRUE
    /\ initFailed = FALSE
    /\ exposureFixed = TRUE
    /\ tensor_arena = "alloc"
    /\ arenaSize = kTensorArenaSize
    /\ mallocCalls = 1
    /\ interpreter = "bound"
    /\ input = "bound"
    /\ output = "bound"
    /\ setupResult = "ok"
    /\ fatalDiags = 0
    /\ fb = NoFrame
    /\ outstanding = 0
    /\ returns = 1
    /\ useAfterReturn = FALSE
    /\ dest = SampleTensor.dest
    /\ writes = SampleTensor.writes
    /\ destAtEntry = BlankTensor
    /\ \E q \in ScoreInputs :
          outq = [ k \in 0 .. 1 |-> IF k = DOOR_CLOSED_INDEX THEN q[1] ELSE q[2] ]
    /\ zero_point \in Int8
    /\ scale \in ScoreScales
    /\ decision = NoDecision
    /\ steps = << "acquire", "convert", "invoke" >>
    /\ twin = [ NoTwin EXCEPT !.dest = dest, !.outq = outq ]
    /\ i = 0
    /\ saved = 0
    /\ pauses = 0
    /\ reported = NoReport
    /\ sdOk = FALSE
    /\ label = << >>
    /\ attempts = 0
    /\ failed = FALSE

NextScore == RunInferenceAndReport_Report

SpecScore == InitScore /\ [][NextScore]_vars

\* ------------------------------------------------------------ properties
InSteps(name) == \E k \in 1 .. Len(steps) : steps[k] = name

\* the 5/6/5-bit fields of source pixel n of the held frame, read off the
\* little-endian 16-bit word
WordOf(n) == fb.buf[2 * n] + 256 * fb.buf[2 * n + 1]
RedField(n) == (WordOf(n) \div 2048) % 32
GreenField(n) == (WordOf(n) \div 32) % 64
BlueField(n) == WordOf(n) % 32

\* C1: in the door sketch a cycle that completed acquisition and inference
\* reports exactly one of DOOR_OPEN and DOOR_CLOSED; it is DOOR_OPEN exactly
\* when (raw closed - zero point) * scale is strictly below 0.55 and
\* DOOR_CLOSED otherwise, whatever the open score is.
C1_ClosedScoreRule ==
    sketch = "door" =>
      /\ (pc = "delay" /\ InSteps("invoke")) => decision # NoDecision
      /\ decision # NoDecision =>
           LET closedTimes100 == (outq[DOOR_CLOSED_INDEX] - zero_point) * scale * 100
           IN  /\ decision.state \in { "DOOR_OPEN", "DOOR_CLOSED" }
               /\ (decision.state = "DOOR_OPEN") <=> (closedTimes100 < 55 * ScaleDen)
               /\ (decision.state = "DOOR_CLOSED") <=> (closedTimes100 >= 55 * ScaleDen)

\* a door reported open although the open score is the lower of the two
C1_Witness ==
    /\ sketch = "door"
    /\ pc = "delay"
    /\ decision # NoDecision
    /\ decision.state = "DOOR_OPEN"
    /\ decision.open < decision.closed

\* C2: after a fatal setup error exactly one fatal diagnostic has been
\* printed and no cycle step ever occurs: no frame is requested and the
\* program does not run into the unbound tensor handles.
C2_FatalSetupHalts ==
    setupResult = "fatal" =>
      /\ fatalDiags = 1
      /\ steps = << >>
      /\ pc # "crashed"

\* C3: for every 16-bit pixel the three stored values lie in -128..127,
\* and (value + 128) shifted right by 3, 2 and 3 gives back the 5-bit red,
\* 6-bit green and 5-bit blue field.
C3_RoundTrip ==
    pc = "gid_return" =>
      /\ \A k \in 0 .. 2 : dest[k] \in Int8
      /\ (dest[0] + 128) \div 8 = RedField(0)
      /\ (dest[1] + 128) \div 4 = GreenField(0)
      /\ (dest[2] + 128) \div 8 = BlueField(0)

\* pixel 0x1FE0 (all green): green field 63 is stored as 124
C3_Witness ==
    /\ pc = "gid_return"
    /\ fb.buf[0] = 224
    /\ fb.buf[1] = 7
    /\ dest[0] = -128
    /\ dest[1] = 124
    /\ dest[2] = -128

\* C4: for every byte pair (b0, b1) the pixel is b0 + 256*b1 and the stored
\* values are ((pixel >> 11) & 31) * 8 - 128, ((pixel >> 5) & 63) * 4 - 128
\* and (pixel & 31) * 8 - 128.
C4_ReferenceConversion ==
    pc = "gid_return" =>
      LET pixel == fb.buf[0] + 256 * fb.buf[1]
      IN  /\ dest[0] = ((pixel \div 2048) % 32) * 8 - 128
          /\ dest[1] = ((pixel \div 32) % 64) * 4 - 128
          /\ dest[2] = (pixel % 32) * 8 - 128

\* bytes (0x00, 0xF8): the high byte carries the red field
C4_Witness ==
    /\ pc = "gid_return"
    /\ fb.buf[0] = 0
    /\ fb.buf[1] = 248
    /\ dest[0] = 120
    /\ dest[1] = -128
    /\ dest[2] = -128

\* C5: when the conversion of a w x h frame has finished, elements 3n,
\* 3n+1, 3n+2 hold red, green and blue of source pixel n for every n below
\* w*h, every index below 3*w*h was stored to exactly once and no other
\* index was stored to.
C5_InterleavedOrder ==
    pc = "gid_return" =>
      LET n == fb.width * fb.height
      IN  /\ \A p \in 0 .. (n - 1) :
                /\ dest[3 * p] = RedField(p) * 8 - 128
                /\ dest[3 * p + 1] = GreenField(p) * 4 - 128
                /\ dest[3 * p + 2] = BlueField(p) * 8 - 128
          /\ \A k \in DOMAIN writes : writes[k] = (IF k < 3 * n THEN 1 ELSE 0)

\* a frame whose first two pixels differ, converted in the door sketch
C5_Witness ==
    /\ sketch = "door"
    /\ pc = "gid_return"
    /\ WordOf(0) # WordOf(1)
    /\ dest[0] # dest[3]
    /\ writes[InputLen - 1] = 1

\* C6: a cycle whose frame request failed consists of that request alone:
\* the InputTensor is as it was when the cycle began, Invoke was not
\* called, nothing was reported, no frame is held, and the program is
\* neither crashed nor halted but on its way to the next cycle.
C6_NoFrameNoDecision ==
    InSteps("acquire_fail") =>
      /\ steps = << "acquire_fail" >>
      /\ dest = destAtEntry
      /\ decision = NoDecision
      /\ outstanding = 0
      /\ pc \in { "delay", "loop" }

\* a failed request in a cycle that follows a completed conversion
C6_Witness ==
    /\ setupResult = "ok"
    /\ pc = "delay"
    /\ steps = << "acquire_fail" >>
    /\ dest[0] \in Int8
    /\ dest = destAtEntry

\* C7: a cycle whose forward pass failed ends there: Invoke was called once,
\* no score was de-quantized, nothing was reported.
C7_InvokeFailureAbandons ==
    InSteps("invoke_fail") =>
      /\ steps = << "acquire", "convert", "invoke_fail" >>
      /\ decision = NoDecision
      /\ pc \in { "delay", "loop" }

C7_Witness ==
    /\ pc = "delay"
    /\ steps = << "acquire", "convert", "invoke_fail" >>
    /\ decision = NoDecision

\* the four step kinds of a cycle, in order
CycleOrder == << "acquire", "convert", "invoke", "decide" >>
StepKind(name) ==
    CASE name = "acquire_fail" -> "acquire"
      [] name = "invoke_fail" -> "invoke"
      [] OTHER -> name
CycleEnded == steps # << >> /\ steps[Len(steps)] \in { "acquire_fail", "invoke_fail", "decide" }

\* C8: the steps of a cycle are a prefix of acquisition, conversion,
\* inference, decision, each at most once and nothing after a failed step;
\* a finished cycle whose acquisition and inference succeeded has all four
\* and one reported decision; a decision is reported only by the decision
\* step; and whenever a cycle is about to start, the previous one has ended
\* and holds no frame.
C8_OneOfEachInOrder ==
    /\ Len(steps) <= 4
    /\ \A k \in 1 .. Len(steps) : StepKind(steps[k]) = CycleOrder[k]
    /\ \A k \in 1 .. (Len(steps) - 1) : steps[k] \notin { "acquire_fail", "invoke_fail" }
    /\ (pc = "delay" /\ InSteps("acquire") /\ InSteps("invoke")) =>
          (steps = CycleOrder /\ decision # NoDecision)
    /\ (decision # NoDecision) <=> InSteps("decide")
    /\ (pc = "loop" /\ steps # << >>) => (CycleEnded /\ outstanding = 0)
    /\ (pc \in { "gid_get", "gid_convert", "gid_return", "invoke", "decide" }) => ~CycleEnded

\* a second cycle about to start after a complete first one
C8_Witness ==
    /\ pc = "loop"
    /\ steps = CycleOrder
    /\ decision # NoDecision

\* positions at which the running operation holds the frame it obtained
HoldingPositions == { "gid_convert", "gid_return", "cap_open", "cap_write", "cap_return" }

\* C9: a frame obtained by GetInputData or captureAndSave is returned
\* exactly once on every path: outside the window between the request and
\* the return no frame is outstanding, inside it exactly one is and it has
\* not been returned yet; no frame buffer is read after its return; and
\* there is never more than one frame outstanding.
C9_FrameReturnedOnEveryPath ==
    /\ outstanding <= 1
    /\ ~useAfterReturn
    /\ pc \in HoldingPositions => (outstanding = 1 /\ returns = 0)
    /\ pc \notin HoldingPositions => (outstanding = 0 /\ returns <= 1)

\* C10: for every raw value and zero point in -128..127 each score is
\* (raw - zero_point) * scale with the exact difference in -255..255, both
\* classes use the same zero point and scale, and the computation is
\* defined on every input.
C10_ScoreFormula ==
    /\ pc = "decide" => ENABLED RunInferenceAndReport_Report
    /\ (pc = "delay" /\ InSteps("decide")) =>
         LET dc == outq[DOOR_CLOSED_INDEX] - zero_point
             do == outq[DOOR_OPEN_INDEX] - zero_point
         IN  /\ dc \in -255 .. 255
             /\ do \in -255 .. 255
             /\ decision.closed = dc * scale
             /\ decision.open = do * scale
             /\ (decision.closed > 0) <=> (outq[DOOR_CLOSED_INDEX] > zero_point)
             /\ (decision.open > 0) <=> (outq[DOOR_OPEN_INDEX] > zero_point)

\* raw 127 with zero point -128: the difference 255 does not fit 8 bits
C10_Witness ==
    /\ pc = "delay"
    /\ outq[DOOR_CLOSED_INDEX] = 127
    /\ zero_point = -128
    /\ decision.closed = 255 * scale
    /\ decision.state = "DOOR_CLOSED"

\* the rule one might substitute for the door sketch's: open when the open
\* score reaches the threshold
SubstitutedRule(open_score) ==
    IF ~ScoreBelow(open_score, CLOSED_DOOR_THRESHOLD) THEN "DOOR_OPEN" ELSE "DOOR_CLOSED"

ScoreInUnitRange(score) == score >= 0 /\ score <= ScaleDen

\* C11: the closed-score rule of the door sketch is not the rule "open iff
\* open score >= 0.55": the reported state differs from the substituted
\* rule's exactly when the two scores lie on the same side of 0.55, which
\* happens for scores in [0,1] x [0,1].
C11_RulesDiffer ==
    (sketch = "door" /\ decision # NoDecision) =>
       ( (decision.state # SubstitutedRule(decision.open))
         <=> ( ScoreBelow(decision.closed, CLOSED_DOOR_THRESHOLD)
               <=> ScoreBelow(decision.open, CLOSED_DOOR_THRESHOLD) ) )

\* both scores in [0,1] and below 0.55: the sketch reports the door open,
\* the substituted rule would report it closed
C11_Witness ==
    /\ sketch = "door"
    /\ decision # NoDecision
    /\ ScoreInUnitRange(decision.closed)
    /\ ScoreInUnitRange(decision.open)
    /\ decision.state = "DOOR_OPEN"
    /\ SubstitutedRule(decision.open) = "DOOR_CLOSED"

OtherSketch(sk) == IF sk = "door" THEN "classifier" ELSE "door"

\* C19: for every channel value c in 0..255 the door sketch's store (narrow
\* to int8, subtract 128, wrap into int8) equals the classifier sketch's
\* (subtract 128, narrow), so the tensor one sketch's GetInputData leaves
\* for a frame is the tensor the other's would have left.
C19_VariantsAgree ==
    pc = "gid_return" =>
      /\ QuantizeDoor(fb.buf[0]) = QuantizeClassifier(fb.buf[0])
      /\ QuantizeDoor(fb.buf[0]) = fb.buf[0] - 128
      /\ dest = ConvertLoop(OtherSketch(sketch), fb, 0,
                    [ dest |-> BlankTensor, writes |-> NoWrites, dest_index |-> 0 ]).dest

\* the door sketch on a white pixel: every channel is at least 128, where
\* the narrowing to int8 goes negative before the subtraction
C19_Witness ==
    /\ sketch = "door"
    /\ pc = "gid_return"
    /\ fb.buf[0] = 255
    /\ fb.buf[1] = 255
    /\ dest[0] = 120
    /\ dest[1] = 124
    /\ dest[2] = 120

\* C20: in the door sketch a failed camera initialisation is reported and
\* init_camera returns without applying the gain/exposure settings; setup
\* is not halted by it and goes on to the model, arena and tensor setup and
\* to loop(). In the classifier sketch the same failure halts for ever with
\* no model setup done and no cycle begun.
C20_CameraFailureFatalOnlyInClassifier ==
    /\ (sketch = "door" /\ initFailed) =>
          /\ ~exposureFixed
          /\ pc # "halt"
          /\ pc = "setup_model" => ENABLED setup_CheckVersion
    /\ (sketch = "classifier" /\ initFailed) =>
          /\ pc = "halt"
          /\ ~ENABLED Next
          /\ setupResult = "running"
          /\ tensor_arena = "null" /\ interpreter = "null"
          /\ input = "null" /\ output = "null"
          /\ steps = << >> /\ decision = NoDecision

\* the door sketch after a failed camera initialisation: setup completed
\* ("Model loaded and ready") and loop() ran a cycle to its end
C20_Witness ==
    /\ sketch = "door"
    /\ initFailed
    /\ ~exposureFixed
    /\ setupResult = "ok"
    /\ pc = "delay"
    /\ steps # << >>

InCycle == pc \in { "gid_get", "gid_convert", "gid_return", "invoke", "decide", "delay" }

\* C14: heap_caps_malloc is called at most once, in setup, and an allocated
\* arena has 384*1024 = 393216 bytes; once allocated, the arena pointer and
\* its size never change again (no free, resize or second allocation), and
\* no step of a cycle allocates.
C14_ArenaAllocatedOnce ==
    /\ [](/\ mallocCalls <= 1
          /\ tensor_arena = "alloc" => (arenaSize = 393216 /\ mallocCalls = 1)
          /\ tensor_arena = "null" => arenaSize = 0)
    /\ [][ /\ tensor_arena = "alloc" => UNCHANGED << tensor_arena, arenaSize, mallocCalls >>
           /\ mallocCalls' # mallocCalls => (pc = "setup_arena" /\ setupResult = "running")
           /\ (InCycle \/ pc = "loop") => UNCHANGED << tensor_arena, arenaSize, mallocCalls >>
         ]_vars

\* the arena allocated in setup is still the 393216-byte region after a
\* cycle that ran to its decision
C14_Witness ==
    /\ sketch \in Classifiers
    /\ tensor_arena = "alloc"
    /\ arenaSize = 393216
    /\ mallocCalls = 1
    /\ pc = "delay"
    /\ decision # NoDecision

C16_ScoresPureFunction ==
    [][ pc = "decide" =>
          /\ decision'.closed = (outq[0] - zero_point) * scale
          /\ decision'.open = (outq[1] - zero_point) * scale
          /\ sketch = "door" =>
               decision'.state = IF (outq[0] - zero_point) * scale * 100 < 55 * ScaleDen
                                 THEN "DOOR_OPEN" ELSE "DOOR_CLOSED"
          /\ sketch = "classifier" =>
               decision'.state = IF (outq[1] - zero_point) * scale * 100 >= 70 * ScaleDen
                                 THEN "DETECTION" ELSE "NO_DETECTION"
          /\ UNCHANGED << outq, dest, writes, destAtEntry, zero_point, scale,
                          handles, frameVars, cameraVars, setupResult,
                          fatalDiags, sketch, batchVars >>
      ]_vars

\* a cycle has computed its scores: raw closed 12 and raw open 127 are
\* still in the output tensor, the converted frame is still in the
\* InputTensor
C16_Witness ==
    /\ sketch = "door"
    /\ pc = "delay"
    /\ decision # NoDecision
    /\ outq[0] = 12 /\ outq[1] = 127
    /\ decision.closed = (12 - zero_point) * scale
    /\ decision.open = (127 - zero_point) * scale
    /\ \A k \in 0 .. (InputLen - 1) : dest[k] \in Int8

\* the score is printed with %.2f as h hundredths
PrintsAs(score, h) ==
    /\ score * 1000 >= (10 * h - 5) * ScaleDen
    /\ score * 1000 < (10 * h + 5) * ScaleDen

\* C17: under the one descriptor (zero point 61, scale 33/2048) for which
\* raw closed 120 is the score 0.95 and raw closed 80 the score 0.31, the
\* cycle with raw scores (120, 115) reports DOOR_CLOSED and the cycle with
\* raw scores (80, 127) reports DOOR_OPEN; and for every descriptor, if raw
\* closed value q gives DOOR_CLOSED then so do q + 1 and the largest raw
\* value, hence every q' >= q.
C17_ExampleAndMonotone ==
    (pc = "delay" /\ InSteps("decide")) =>
       /\ (zero_point = 61 /\ scale = 33 /\ outq[0] = 120 /\ outq[1] = 115) =>
            (PrintsAs(decision.closed, 95) /\ decision.state = "DOOR_CLOSED")
       /\ (zero_point = 61 /\ scale = 33 /\ outq[0] = 80 /\ outq[1] = 127) =>
            (PrintsAs(decision.closed, 31) /\ decision.state = "DOOR_OPEN")
       /\ (scale > 0 /\ decision.state = "DOOR_CLOSED") =>
            \A q \in { outq[0] + 1, 127 } \cap Int8 :
               Classify(sketch, Dequantize(q, zero_point, scale), decision.open)
                  = "DOOR_CLOSED"

\* the cycle with raw scores (80, 127) under the descriptor that gives raw
\* 120 the score 0.95: closed score 0.31, door reported open
C17_Witness ==
    /\ pc = "delay"
    /\ InSteps("decide")
    /\ zero_point = 61 /\ scale = 33
    /\ outq[0] = 80 /\ outq[1] = 127
    /\ PrintsAs(decision.closed, 31)
    /\ PrintsAs(Dequantize(120, zero_point, scale), 95)
    /\ decision.state = "DOOR_OPEN"

\* C12: a second run whose InputTensor content differs from the first run's
\* when a cycle begins holds the same InputTensor content as the first run
\* once the cycle has converted the same frame, is given the same raw
\* outputs by the forward pass, and emits the same scores and decision.
C12_NoStateCarried ==
    /\ pc \in { "gid_return", "invoke" } => twin.dest = dest
    /\ (pc \in { "decide", "delay" } /\ InSteps("invoke")) =>
          (twin.dest = dest /\ twin.outq = outq)
    /\ (pc = "delay" /\ InSteps("decide")) =>
          (decision # NoDecision /\ twin.decision = decision)

\* the second run entered the cycle with a different InputTensor and both
\* runs decided
C12_Witness ==
    /\ pc = "delay"
    /\ InSteps("decide")
    /\ twin.differed
    /\ twin.dest = dest
    /\ \A k \in 0 .. (InputLen - 1) : dest[k] \in Int8
    /\ twin.decision = decision
    /\ decision.state = "DOOR_OPEN"

FramePixels == fb.width * fb.height

CycleBegins == pc = "gid_get" /\ steps = << >>

\* C13: after a successful setup every cycle, whether it ended with a
\* decision, a failed acquisition or a failed inference, is followed by the
\* beginning of a further cycle; a failed step ends its cycle at once, with
\* no second attempt at acquisition or inference inside it, and no outcome
\* halts the sketch.
C13_NextCycleAlwaysBegins ==
    /\ \A outcome \in { "decide", "acquire_fail", "invoke_fail" } :
          (setupResult = "ok" /\ steps # << >> /\ steps[Len(steps)] = outcome)
             ~> CycleBegins
    /\ [](setupResult = "ok" =>
            /\ pc \notin { "halt", "crashed" }
            /\ CycleEnded => pc \in { "delay", "loop" }
            /\ Cardinality({ k \in 1 .. Len(steps) : StepKind(steps[k]) = "acquire" }) <= 1
            /\ Cardinality({ k \in 1 .. Len(steps) : StepKind(steps[k]) = "invoke" }) <= 1)

\* a cycle begins while the output tensor still holds the raw scores of an
\* earlier cycle
C13_Witness ==
    /\ setupResult = "ok"
    /\ CycleBegins
    /\ outq[0] \in Int8
    /\ decision = NoDecision

\* --------------------------------------------- dataset capture batches
\* a batch is running: from the accepted label to the "Batch Complete" line
InBatch == pc \in { "cap_get", "cap_open", "cap_write", "cap_return",
                    "cap_pause", "cap_done" }

\* loop() accepts a label and enters the for loop
BatchStart == pc = "cap_loop" /\ pc' = "cap_get"

\* a captureAndSave call begins
CaptureAttempt == attempts' # attempts /\ ~BatchStart

\* delay(CAPTURE_DELAY_MS) is executed
PauseTaken == pauses' # pauses /\ ~BatchStart

\* C21: in the dataset-capture sketch a batch runs only with a non-empty
\* label and after SD-card and camera initialisation both succeeded; its
\* captures are attempts 1, 2, ... of at most IMAGE_COUNT; after a failed
\* capture or save no further capture is attempted in the batch; and a
\* pause is made only after a successful capture that is not the last one
\* and is followed by the next capture, so that a finished batch has made
\* one pause fewer than captures.
C21_BatchDiscipline ==
    /\ [](InBatch => /\ sketch = "capture"
                     /\ sdOk
                     /\ cameraOk
                     /\ Len(label) > 0
                     /\ attempts <= IMAGE_COUNT)
    /\ [][BatchStart => attempts' = 0 /\ pauses' = 0 /\ ~failed']_vars
    /\ [][CaptureAttempt => /\ ~failed
                            /\ attempts' = attempts + 1
                            /\ attempts' = i
                            /\ attempts' <= IMAGE_COUNT]_vars
    /\ [][PauseTaken => /\ ~failed
                        /\ pauses' = pauses + 1
                        /\ saved = attempts
                        /\ attempts < IMAGE_COUNT
                        /\ pc' = "cap_get"]_vars
    /\ [](pc = "cap_done" => pauses = attempts - 1)

\* a batch that saved images, paused between them and then stopped at a
\* failed capture or save
C21_Witness ==
    /\ pc = "cap_done"
    /\ failed
    /\ saved >= 2
    /\ pauses = saved
    /\ attempts = saved + 1
    /\ attempts < IMAGE_COUNT

\* C22: once the "Batch Complete: N images saved" line of a batch is
\* printed, N is the number of images saved in that batch.
C22_ReportedEqualsSaved ==
    reported # NoReport => reported = saved

====
